---- MODULE Spec2Model ----
(***************************************************************************)
(* Statistical-arbitrage pair trading: the z-score of the spread            *)
(* (utils.calculate_zscore) and the position automaton of                  *)
(* PairTradingStrategy.generate_signals (trading_strategy.py).             *)
(*                                                                         *)
(* Numbers.  Prices and the hedge ratio are integers, so the spread is an  *)
(* integer.  A threshold is an exact rational [num, den] with den > 0.     *)
(* A z-score is kept exactly as the quotient the code forms,               *)
(*     (num / den) / sqrt(vnum / vden),                                    *)
(* the deviation from the rolling mean over the rolling standard           *)
(* deviation, with kind "nan" / "pinf" / "ninf" for the IEEE results of a  *)
(* division by a zero or undefined standard deviation.  Comparisons are    *)
(* decided exactly by cross-multiplying and squaring; a comparison with    *)
(* NaN is false, as in IEEE arithmetic.                                    *)
(* Arrays are functions on 0 .. n-1, so indices are the source's indices.  *)
(*                                                                         *)
(* Around it: PairTradingStrategy.calculate_returns, the portfolio loop of *)
(* PortfolioStrategy.backtest with its performance metrics, the two        *)
(* statistics of utils.py (Sharpe ratio, maximum drawdown) and the pair    *)
(* screener PairSelector.find_cointegrated_pairs with get_hedge_ratio, and *)
(* the runner StatArbBacktester.run_backtest (backtest.py) that joins the  *)
(* screener to the portfolio loop.  Returns are exact rationals in lowest  *)
(* terms.                                                                  *)
(***************************************************************************)
EXTENDS Integers, Sequences, FiniteSets, TLC

VARIABLES
    price1,            \* generate_signals argument: first price series
    price2,            \* generate_signals argument: second price series
    hedge_ratio,       \* generate_signals argument
    strategy,          \* the PairTradingStrategy instance's five fields
    spread,            \* local: price2 - hedge_ratio * price1
    zscore,            \* local: calculate_zscore(spread, lookback_period)
    position1,         \* local array, leg 1
    position2,         \* local array, leg 2
    days_in_position,  \* local counter
    t,                 \* loop variable of "for t in range(lookback_period, n)"
    pc,                \* position of the running call
    daily_returns,     \* calculate_returns result
    cumulative_returns,\* calculate_returns result
    price_data,        \* backtest argument: column name -> price series
    pairs,             \* backtest argument, then the truncated local list
    hedge_ratios,      \* backtest argument: pair key -> hedge ratio
    portfolio,         \* the PortfolioStrategy instance's fields
    pair_i,            \* backtest: index i of "for i, ... in enumerate(pairs)"
    returns_df,        \* backtest: the returns frame, column by column
    pair_results,      \* backtest: pair key -> that pair's results
    returns,           \* _calculate_performance_metrics argument
    performance_metrics, \* _calculate_performance_metrics result
    selector,          \* the PairSelector instance's fields
    columns,           \* find_cointegrated_pairs: price_data.columns
    stock_pairs,       \* find_cointegrated_pairs: local list of combinations
    pair_k,            \* find_cointegrated_pairs: pairs of the loop done
    p_value,           \* find_cointegrated_pairs: local of the last pass
    half_life,         \* find_cointegrated_pairs: local of the last pass
    outcome            \* how the outermost call ended: return or exception

\* state of the pair screener
ScreenVars ==
    <<selector, columns, stock_pairs, pair_k, p_value, half_life, outcome>>

\* state outside generate_signals
Outer == <<daily_returns, cumulative_returns, price_data, pairs, hedge_ratios,
           portfolio, pair_i, returns_df, pair_results, returns,
           performance_metrics, ScreenVars>>

vars == <<price1, price2, hedge_ratio, strategy, spread, zscore,
          position1, position2, days_in_position, t, pc, Outer>>

----------------------------------------------------------------------------
(* Bounds of the model and input domains *)

MaxLen == 5
MaxHold == 3

RECURSIVE GCD(_, _)
GCD(a, b) == IF b = 0 THEN a ELSE GCD(b, a % b)

Rat(n, d) == [num |-> n, den |-> d]
RatNeg(r) == [num |-> -r.num, den |-> r.den]

Abs(x) == IF x < 0 THEN -x ELSE x

\* exact value a / b (b # 0) of a float expression, in lowest terms
RNorm(a, b) ==
    LET g == GCD(Abs(a), Abs(b))
        sg == IF b < 0 THEN -1 ELSE 1
    IN  Rat((sg * a) \div g, (sg * b) \div g)

RInt(k) == Rat(k, 1)
RAdd(x, y) ==
    LET g == GCD(x.den, y.den)
    IN  RNorm(x.num * (y.den \div g) + y.num * (x.den \div g),
              (x.den \div g) * y.den)
RSub(x, y) == RAdd(x, RatNeg(y))
RMul(x, y) ==
    LET a == RNorm(x.num, y.den)
        b == RNorm(y.num, x.den)
    IN  Rat(a.num * b.num, a.den * b.den)
RLess(x, y) ==
    LET g == GCD(x.den, y.den)
    IN  x.num * (y.den \div g) < y.num * (x.den \div g)

----------------------------------------------------------------------------
(* Floating values of the z-score array *)

ZZero == [kind |-> "fin", num |-> 0, den |-> 1, vnum |-> 1, vden |-> 1]
ZNaN  == [kind |-> "nan", num |-> 0, den |-> 1, vnum |-> 1, vden |-> 1]
ZInf(positive) ==
    [kind |-> IF positive THEN "pinf" ELSE "ninf",
     num |-> 0, den |-> 1, vnum |-> 1, vden |-> 1]

ZIsFinite(z) == z.kind = "fin"
ZIsZero(z) == z.kind = "fin" /\ z.num = 0

\* a * sqrt(p) < b * sqrt(q) for integers a, b and naturals p, q > 0
SqrtLess(a, p, b, q) ==
    IF a < 0
    THEN IF b >= 0 THEN TRUE ELSE a * a * p > b * b * q
    ELSE IF b <= 0 THEN FALSE ELSE a * a * p < b * b * q

\* z < th for a z-score value z and a rational th
ZLess(z, th) ==
    CASE z.kind = "nan"  -> FALSE
      [] z.kind = "pinf" -> FALSE
      [] z.kind = "ninf" -> TRUE
      [] OTHER ->
           \* (num/den)/sqrt(vnum/vden) < th.num/th.den
           \*   <=>  num*th.den*sqrt(vden) < th.num*den*sqrt(vnum);
           \* the common factor of vden and den*den is removed first
           LET g == GCD(z.vden, z.den * z.den)
           IN  SqrtLess(z.num * th.den, z.vden \div g,
                        th.num, ((z.den * z.den) \div g) * z.vnum)

\* z > th
ZGreater(z, th) ==
    CASE z.kind = "nan"  -> FALSE
      [] z.kind = "pinf" -> TRUE
      [] z.kind = "ninf" -> FALSE
      [] OTHER ->
           LET g == GCD(z.vden, z.den * z.den)
           IN  SqrtLess(th.num, ((z.den * z.den) \div g) * z.vnum,
                        z.num * th.den, z.vden \div g)

----------------------------------------------------------------------------
(* utils.calculate_zscore *)

Len0(a) == Cardinality(DOMAIN a)

RECURSIVE SumOver(_, _, _)
\* a[lo] + ... + a[hi]
SumOver(a, lo, hi) == IF lo > hi THEN 0 ELSE a[hi] + SumOver(a, lo, hi - 1)

RECURSIVE SumSqOver(_, _, _)
SumSqOver(a, lo, hi) ==
    IF lo > hi THEN 0 ELSE a[hi] * a[hi] + SumSqOver(a, lo, hi - 1)

\* pd.Series(s).rolling(window).mean() at index i: NaN until the trailing
\* window holds `window` observations (min_periods = window)
RollingMean(s, window, i) ==
    IF i >= window - 1 /\ window >= 1
    THEN [nan |-> FALSE, num |-> SumOver(s, i - window + 1, i), den |-> window]
    ELSE [nan |-> TRUE, num |-> 0, den |-> 1]

\* the square of pd.Series(s).rolling(window).std() at index i (sample
\* variance, ddof = 1): sum((x - mean)^2) / (window - 1)
\*   = (window * sum(x^2) - sum(x)^2) / (window * (window - 1));
\* NaN until the window is complete, and for a window of one observation
RollingVar_population(s, window, i) ==
    IF i >= window - 1 /\ window >= 2
    THEN LET sm == SumOver(s, i - window + 1, i)
             sq == SumSqOver(s, i - window + 1, i)
         IN  [nan |-> FALSE, num |-> window * sq - sm * sm,
              den |-> window * window]
    ELSE [nan |-> TRUE, num |-> 0, den |-> 1]
RollingVar(s, window, i) ==
    IF i >= window - 1 /\ window >= 2
    THEN LET sm == SumOver(s, i - window + 1, i)
             sq == SumSqOver(s, i - window + 1, i)
         IN  [nan |-> FALSE, num |-> window * sq - sm * sm,
              den |-> window * (window - 1)]
    ELSE [nan |-> TRUE, num |-> 0, den |-> 1]

\* (s[i] - rolling_mean[i]) / rolling_std[i] in IEEE arithmetic
ZQuotient(s, window, i) ==
    LET m == RollingMean(s, window, i)
        v == RollingVar(s, window, i)
        dev == s[i] * m.den - m.num       \* numerator of s[i] - mean
    IN  IF m.nan \/ v.nan THEN ZNaN
        ELSE IF v.num = 0
             THEN IF dev = 0 THEN ZNaN ELSE ZInf(dev > 0)
             ELSE [kind |-> "fin", num |-> dev, den |-> m.den,
                   vnum |-> v.num, vden |-> v.den]

\* first index of the slice assigned by "zscore[window:] = ..."
ZSliceStart_prev(window) == window - 1
ZSliceStart_next(window) == window + 1
ZSliceStart(window) == window

\* np.zeros_like(spread), then zscore[window:] = quotient[window:]
calculate_zscore(s, window) ==
    [i \in DOMAIN s |->
        IF i >= ZSliceStart(window) THEN ZQuotient(s, window, i) ELSE ZZero]

----------------------------------------------------------------------------
(* PairTradingStrategy.generate_signals *)

n == Len0(price1)

Spread(p1, p2, h) == [i \in DOMAIN p1 |-> p2[i] - h * p1[i]]

Zeros(len) == [i \in 0 .. len - 1 |-> 0]

\* position1[t-1] == 0 and position2[t-1] == 0
PrevFlat_leg2only(i) == position2[i - 1] = 0
PrevFlat(i) == position1[i - 1] = 0 /\ position2[i - 1] = 0

\* zscore[t] < -self.entry_threshold
LongEntrySignal_notge(i) ==
    IF zscore[i].kind = "nan" THEN TRUE
    ELSE ZLess(zscore[i], RatNeg(strategy.entry_threshold))
LongEntrySignal_exit(i) == ZLess(zscore[i], RatNeg(strategy.exit_threshold))
LongEntrySignal(i) == ZLess(zscore[i], RatNeg(strategy.entry_threshold))

\* zscore[t] > self.entry_threshold
ShortEntrySignal_cooloff(i) ==
    /\ ZGreater(zscore[i], strategy.entry_threshold)
    /\ (i < 2 \/ position1[i - 2] = 0)
ShortEntrySignal(i) == ZGreater(zscore[i], strategy.entry_threshold)

\* the pair written on a long-spread entry / a short-spread entry
EntryLong == <<1, -hedge_ratio>>
EntryShort_samesign == <<-1, -hedge_ratio>>
EntryShort == <<-1, hedge_ratio>>

\* exit when the z-score crosses the exit threshold
MeanReverted_nosign(i) ==
    \/ position1[i - 1] > 0 /\ ZGreater(zscore[i], strategy.exit_threshold)
    \/ position1[i - 1] < 0 /\ ZLess(zscore[i], strategy.exit_threshold)
MeanReverted(i) ==
    \/ position1[i - 1] > 0
         /\ ZGreater(zscore[i], RatNeg(strategy.exit_threshold))
    \/ position1[i - 1] < 0 /\ ZLess(zscore[i], strategy.exit_threshold)

\* exit when the stop loss is triggered
StopLoss_never(i) == FALSE
StopLoss(i) ==
    \/ position1[i - 1] > 0
         /\ ZLess(zscore[i], RatNeg(strategy.stop_loss_threshold))
    \/ position1[i - 1] < 0
         /\ ZGreater(zscore[i], strategy.stop_loss_threshold)

\* exit when the maximum holding period is reached (days already incremented)
MaxHoldingReached_after(days) == days > strategy.max_position_days
MaxHoldingReached_late(days) == days > strategy.max_position_days + 1
MaxHoldingReached(days) == days >= strategy.max_position_days

ExitCondition(i, days) ==
    MeanReverted(i) \/ StopLoss(i) \/ MaxHoldingReached(days)

\* the pair written when exit_position is set
ExitedPosition_reenter(i) ==
    IF LongEntrySignal(i) THEN EntryLong
    ELSE IF ShortEntrySignal(i) THEN EntryShort
    ELSE <<0, 0>>
ExitedPosition(i) == <<0, 0>>

\* the pair written when the position is held
HeldPosition(i) == <<position1[i - 1], position2[i - 1]>>

\* the index written by "position1[t] = ..., position2[t] = ..."
WriteIndex_prev(i) == i - 1
WriteIndex(i) == i

WritePositions(pair) ==
    /\ position1' = [position1 EXCEPT ![WriteIndex(t)] = pair[1]]
    /\ position2' = [position2 EXCEPT ![WriteIndex(t)] = pair[2]]

Inputs == <<price1, price2, hedge_ratio, strategy, spread, zscore>>

\* lines 57-69: spread, z-score, zeroed positions, counter, loop entry
GenerateSignalsBegin ==
    /\ pc = "start"
    /\ spread' = Spread(price1, price2, hedge_ratio)
    /\ zscore' = calculate_zscore(spread', strategy.lookback_period)
    /\ position1' = Zeros(n)
    /\ position2' = Zeros(n)
    /\ days_in_position' = 0
    /\ t' = strategy.lookback_period
    /\ pc' = "loop"
    /\ UNCHANGED <<price1, price2, hedge_ratio, strategy, Outer>>

EnterLong ==
    /\ pc = "loop" /\ t < n
    /\ PrevFlat(t)
    /\ LongEntrySignal(t)
    /\ WritePositions(EntryLong)
    /\ days_in_position' = 1
    /\ t' = t + 1
    /\ UNCHANGED <<Inputs, pc, Outer>>

EnterShort ==
    /\ pc = "loop" /\ t < n
    /\ PrevFlat(t)
    /\ ~LongEntrySignal(t)
    /\ ShortEntrySignal(t)
    /\ WritePositions(EntryShort)
    /\ days_in_position' = 1
    /\ t' = t + 1
    /\ UNCHANGED <<Inputs, pc, Outer>>

StayFlat ==
    /\ pc = "loop" /\ t < n
    /\ PrevFlat(t)
    /\ ~LongEntrySignal(t)
    /\ ~ShortEntrySignal(t)
    /\ t' = t + 1
    /\ UNCHANGED <<Inputs, position1, position2, days_in_position, pc, Outer>>

ExitPosition ==
    /\ pc = "loop" /\ t < n
    /\ ~PrevFlat(t)
    /\ ExitCondition(t, days_in_position + 1)
    /\ WritePositions(ExitedPosition(t))
    /\ days_in_position' = 0
    /\ t' = t + 1
    /\ UNCHANGED <<Inputs, pc, Outer>>

HoldPosition ==
    /\ pc = "loop" /\ t < n
    /\ ~PrevFlat(t)
    /\ ~ExitCondition(t, days_in_position + 1)
    /\ WritePositions(HeldPosition(t))
    /\ days_in_position' = days_in_position + 1
    /\ t' = t + 1
    /\ UNCHANGED <<Inputs, pc, Outer>>

GenerateSignalsReturn ==
    /\ pc = "loop" /\ t >= n
    /\ pc' = "done"
    /\ UNCHANGED <<Inputs, position1, position2, days_in_position, t, Outer>>

----------------------------------------------------------------------------
(* PairTradingStrategy.calculate_returns (trading_strategy.py).  Returns are
   exact rationals in lowest terms, so two equal values are equal records. *)

\* lines 139-143: 0 at index 0, then (price[i] - price[i-1]) / price[i-1]
PriceChange(price) ==
    [i \in DOMAIN price |->
        IF i = 0 THEN RInt(0)
        ELSE RNorm(price[i] - price[i - 1], price[i - 1])]

\* line 146: position[:-1] is paired with price_change[1:]
PositionLag_none(i) == i
PositionLag(i) == i - 1

\* lines 146-149
DailyReturns(p1, p2, pos1, pos2) ==
    LET change1 == PriceChange(p1)
        change2 == PriceChange(p2)
    IN  [i \in DOMAIN p1 |->
            IF i = 0 THEN RInt(0)
            ELSE RAdd(RMul(RInt(pos1[PositionLag(i)]), change1[i]),
                      RMul(RInt(pos2[PositionLag(i)]), change2[i]))]

\* product of (1 + a[k]) for k in lo .. hi; 1 for an empty range
RECURSIVE ProdOnePlus(_, _, _)
ProdOnePlus(a, lo, hi) ==
    IF lo > hi THEN RInt(1)
    ELSE RMul(ProdOnePlus(a, lo, hi - 1), RAdd(RInt(1), a[hi]))

\* np.cumprod(1 + a) - 1
CumulativeReturns_sum(a) ==
    LET acc[k \in DOMAIN a] == IF k = 0 THEN a[0] ELSE RAdd(acc[k - 1], a[k])
    IN  acc
CumulativeReturns(a) ==
    [i \in DOMAIN a |-> RSub(ProdOnePlus(a, 0, i), RInt(1))]

\* lines 138-154, called on the arrays generate_signals returned
CalculateReturns ==
    /\ pc = "done"
    /\ daily_returns' = DailyReturns(price1, price2, position1, position2)
    /\ cumulative_returns' = CumulativeReturns(daily_returns')
    /\ pc' = "returns"
    /\ UNCHANGED <<Inputs, position1, position2, days_in_position, t,
                   ScreenVars,
                   price_data, pairs, hedge_ratios, portfolio, pair_i,
                   returns_df, pair_results, returns, performance_metrics>>

----------------------------------------------------------------------------
(* utils.calculate_sharpe_ratio and utils.calculate_max_drawdown.  A float
   that may be NaN or infinite is [kind, val] with val an exact rational. *)

Fin(r) == [kind |-> "fin", val |-> r]
NotFin(k) == [kind |-> k, val |-> RInt(0)]

\* IEEE x / y for finite x and y
FDiv(x, y) ==
    IF y.num # 0 THEN Fin(RNorm(x.num * y.den, x.den * y.num))
    ELSE IF x.num = 0 THEN NotFin("nan")
    ELSE IF x.num > 0 THEN NotFin("pinf")
    ELSE NotFin("ninf")

\* np.min of a non-empty array: NaN propagates
NpMin(a) ==
    LET fins == {i \in DOMAIN a : a[i].kind = "fin"}
    IN  IF \E i \in DOMAIN a : a[i].kind = "nan" THEN NotFin("nan")
        ELSE IF \E i \in DOMAIN a : a[i].kind = "ninf" THEN NotFin("ninf")
        ELSE IF fins = {} THEN NotFin("pinf")
        ELSE a[CHOOSE i \in fins :
                 \A j \in fins : ~RLess(a[j].val, a[i].val)]

FAbs(x) ==
    IF x.kind = "fin" THEN Fin(Rat(Abs(x.val.num), x.val.den))
    ELSE IF x.kind = "nan" THEN x
    ELSE NotFin("pinf")

\* np.maximum.accumulate
RunningMax(a) ==
    LET acc[k \in DOMAIN a] ==
            IF k = 0 THEN a[0]
            ELSE IF RLess(acc[k - 1], a[k]) THEN a[k] ELSE acc[k - 1]
    IN  acc

\* utils.py lines 41-51
calculate_max_drawdown(cum) ==
    IF Len0(cum) = 0 THEN Fin(RInt(0))
    ELSE LET running_max == RunningMax(cum)
             drawdown == [i \in DOMAIN cum |->
                             FDiv(RSub(cum[i], running_max[i]),
                                  running_max[i])]
         IN  FAbs(NpMin(drawdown))

\* np.mean; NaN, written 0/0, for an empty array
MeanOf(a) ==
    LET acc[k \in DOMAIN a] == IF k = 0 THEN a[0] ELSE RAdd(acc[k - 1], a[k])
    IN  IF Len0(a) = 0 THEN Rat(0, 0)
        ELSE RMul(acc[Len0(a) - 1], Rat(1, Len0(a)))

\* the square of np.std (ddof = 0); NaN, written 0/0, for an empty array
VarianceOf(a) ==
    LET m == MeanOf(a)
        sq == [k \in DOMAIN a |-> RMul(RSub(a[k], m), RSub(a[k], m))]
    IN  IF Len0(a) = 0 THEN Rat(0, 0) ELSE MeanOf(sq)

\* trading days per year, utils.py line 28
TradingDays == 252

\* the float 0.0 that line 26 returns
SharpeZero ==
    [kind |-> "zero", mean |-> RInt(0), var |-> RInt(0), annual |-> 0]

\* utils.py lines 23-28: the value mean / sqrt(var) * sqrt(annual)
EmptyOrFlat_flatonly(excess) == VarianceOf(excess) = RInt(0)
EmptyOrFlat(excess) == Len0(excess) = 0 \/ VarianceOf(excess) = RInt(0)

calculate_sharpe_ratio(rets, risk_free_rate) ==
    LET excess == [k \in DOMAIN rets |-> RSub(rets[k], risk_free_rate)]
    IN  IF EmptyOrFlat(excess) THEN SharpeZero
        ELSE [kind |-> IF Len0(excess) = 0 THEN "nan" ELSE "ratio",
              mean |-> MeanOf(excess), var |-> VarianceOf(excess),
              annual |-> TradingDays]

----------------------------------------------------------------------------
(* PortfolioStrategy._calculate_performance_metrics, lines 261-295 *)

\* np.where(a == v)[0] + 1 over the indices 0 .. hi, in increasing order
RECURSIVE WherePlusOne(_, _, _)
WherePlusOne(a, v, hi) ==
    IF hi < 0 THEN <<>>
    ELSE IF a[hi] = v THEN Append(WherePlusOne(a, v, hi - 1), hi + 1)
    ELSE WherePlusOne(a, v, hi - 1)

\* lines 274-284: the list trade_returns
TradeReturns(rets) ==
    LET len == Len0(rets)
        active == [k \in DOMAIN rets |-> IF rets[k] # RInt(0) THEN 1 ELSE 0]
        trades == [k \in 0 .. len - 2 |-> active[k + 1] - active[k]]
        trade_starts == WherePlusOne(trades, 1, len - 2)
        ends == WherePlusOne(trades, -1, len - 2)
        trade_ends == IF Len(trade_starts) > Len(ends)
                      THEN Append(ends, len - 1) ELSE ends
        zipped == IF Len(trade_starts) < Len(trade_ends)
                  THEN Len(trade_starts) ELSE Len(trade_ends)
    IN  [k \in 1 .. zipped |->
            RSub(ProdOnePlus(rets, trade_starts[k], trade_ends[k]), RInt(1))]

\* the returned dictionary; annualized_return is kept as the power it is,
\* (1 + total_return) ** (252 / n_days) - 1
calculate_performance_metrics(rets) ==
    LET cum == CumulativeReturns(rets)
        n_days == Len0(rets)
        total_return == cum[n_days - 1]
        trade_returns == TradeReturns(rets)
        wins == {k \in DOMAIN trade_returns : trade_returns[k].num > 0}
    IN  [total_return |-> total_return,
         annualized_return |->
             [base |-> RAdd(RInt(1), total_return),
              exponent |-> RNorm(TradingDays, n_days)],
         sharpe_ratio |-> calculate_sharpe_ratio(rets, RInt(0)),
         max_drawdown |-> calculate_max_drawdown(cum),
         win_rate |-> IF Len(trade_returns) = 0 THEN RInt(0)
                      ELSE RNorm(Cardinality(wins), Len(trade_returns)),
         num_trades |-> Len(trade_returns)]

\* a direct call on a non-empty series (an empty one raises at line 265)
CalculatePerformanceMetrics ==
    /\ pc = "metrics"
    /\ Len0(returns) > 0
    /\ performance_metrics' = calculate_performance_metrics(returns)
    /\ pc' = "metrics_done"
    /\ UNCHANGED <<Inputs, position1, position2, days_in_position, t,
                   ScreenVars,
                   daily_returns, cumulative_returns, price_data, pairs,
                   hedge_ratios, portfolio, pair_i, returns_df, pair_results,
                   returns>>

\* calculate_sharpe_ratio called on an array, utils.py lines 12-28
CallSharpeRatio ==
    /\ pc = "metrics"
    /\ \E risk_free_rate \in {RInt(0), Rat(1, 2)} :
          performance_metrics' =
              [risk_free_rate |-> risk_free_rate,
               sharpe_ratio |-> calculate_sharpe_ratio(returns, risk_free_rate)]
    /\ pc' = "sharpe_done"
    /\ UNCHANGED <<Inputs, position1, position2, days_in_position, t,
                   ScreenVars,
                   daily_returns, cumulative_returns, price_data, pairs,
                   hedge_ratios, portfolio, pair_i, returns_df, pair_results,
                   returns>>

\* calculate_max_drawdown called on an array, utils.py lines 31-51
CallMaxDrawdown ==
    /\ pc = "metrics"
    /\ performance_metrics' = [max_drawdown |-> calculate_max_drawdown(returns)]
    /\ pc' = "drawdown_done"
    /\ UNCHANGED <<Inputs, position1, position2, days_in_position, t,
                   ScreenVars,
                   daily_returns, cumulative_returns, price_data, pairs,
                   hedge_ratios, portfolio, pair_i, returns_df, pair_results,
                   returns>>

----------------------------------------------------------------------------
(* PortfolioStrategy.backtest, lines 197-247.  A column name is a sequence
   of characters, so that the f-string key is a concatenation. *)

\* f"{stock1}_{stock2}", lines 214 and 232
PairKey(stock1, stock2) == stock1 \o <<"_">> \o stock2

\* the column names of the frames: two pairs of them have the same key
ColumnA == <<"A">>
ColumnAB == <<"A", "_", "B">>
ColumnBC == <<"B", "_", "C">>
ColumnC == <<"C">>
Columns == {ColumnA, ColumnAB, ColumnBC, ColumnC}

\* the column lists of the frames handed to the screener
ColumnLists ==
    { <<ColumnA, ColumnC>>,
      <<ColumnC, ColumnBC, ColumnA>>,
      <<ColumnA, ColumnAB, ColumnBC, ColumnC>> }

\* d[k] = v on a dictionary kept as a function
DictPut(d, k, v) == [x \in DOMAIN d \cup {k} |-> IF x = k THEN v ELSE d[x]]

\* seq[:m]
Truncate(seq, m) ==
    IF m >= 0 THEN SubSeq(seq, 1, IF m < Len(seq) THEN m ELSE Len(seq))
    ELSE SubSeq(seq, 1, Len(seq) + m)

\* number of rows of the price frame
Rows == Len0(price_data[CHOOSE c \in DOMAIN price_data : TRUE])

\* hedge_ratios.get(pair_key, 1.0), line 215
HedgeRatioDefault == 1
HedgeRatioFor_zero(key) ==
    IF key \in DOMAIN hedge_ratios THEN hedge_ratios[key] ELSE 0
HedgeRatioFor(key) ==
    IF key \in DOMAIN hedge_ratios THEN hedge_ratios[key]
    ELSE HedgeRatioDefault

\* the pair the loop is at
CurrentPair == pairs[pair_i + 1]

\* lines 198-205
BacktestBegin ==
    /\ pc = "backtest"
    /\ pairs' = Truncate(pairs, portfolio.max_pairs)
    /\ returns_df' = [portfolio_return |-> [k \in 0 .. Rows - 1 |-> RInt(0)],
                      pair_return |-> <<>>,
                      portfolio_cumulative_return |-> <<>>]
    /\ pair_results' = <<>>
    /\ pair_i' = 0
    /\ pc' = "pairs"
    /\ UNCHANGED <<Inputs, position1, position2, days_in_position, t,
                   ScreenVars,
                   daily_returns, cumulative_returns, price_data,
                   hedge_ratios, portfolio, returns, performance_metrics>>

\* lines 208-220: the next pair's arguments of generate_signals
PairBegin ==
    /\ pc = "pairs" /\ pair_i < Len(pairs)
    /\ price1' = price_data[CurrentPair[1]]
    /\ price2' = price_data[CurrentPair[2]]
    /\ hedge_ratio' = HedgeRatioFor(PairKey(CurrentPair[1], CurrentPair[2]))
    /\ pc' = "start"
    /\ UNCHANGED <<strategy, spread, zscore, position1, position2,
                   days_in_position, t, Outer>>

\* line 229: portfolio_return += daily_returns * capital_per_pair
Weighted_normalised(daily, count) ==
    [k \in DOMAIN daily |->
        RMul(daily[k], RMul(portfolio.capital_per_pair, Rat(1, count)))]
Weighted(daily, count) ==
    [k \in DOMAIN daily |-> RMul(daily[k], portfolio.capital_per_pair)]

\* lines 227-239
PairStore ==
    /\ pc = "returns"
    /\ returns_df' =
          [returns_df EXCEPT
              !.pair_return = Append(@, daily_returns),
              !.portfolio_return =
                  LET w == Weighted(daily_returns, Len(pairs))
                  IN  [k \in DOMAIN @ |-> RAdd(@[k], w[k])]]
    /\ pair_results' =
          DictPut(pair_results,
                  PairKey(CurrentPair[1], CurrentPair[2]),
                  [spread |-> spread, zscore |-> zscore,
                   position1 |-> position1, position2 |-> position2,
                   daily_returns |-> daily_returns,
                   cumulative_returns |-> cumulative_returns])
    /\ pair_i' = pair_i + 1
    /\ pc' = "pairs"
    /\ UNCHANGED <<Inputs, position1, position2, days_in_position, t,
                   ScreenVars,
                   daily_returns, cumulative_returns, price_data, pairs,
                   hedge_ratios, portfolio, returns, performance_metrics>>

\* lines 241-247
BacktestFinish ==
    /\ pc = "pairs" /\ pair_i >= Len(pairs)
    /\ returns_df' =
          [returns_df EXCEPT !.portfolio_cumulative_return =
              CumulativeReturns(returns_df.portfolio_return)]
    /\ returns' = returns_df.portfolio_return
    /\ performance_metrics' = calculate_performance_metrics(returns')
    /\ pc' = "finished"
    /\ UNCHANGED <<Inputs, position1, position2, days_in_position, t,
                   ScreenVars,
                   daily_returns, cumulative_returns, price_data, pairs,
                   hedge_ratios, portfolio, pair_i, pair_results>>

----------------------------------------------------------------------------
(* PairSelector.find_cointegrated_pairs, pair_selection.py lines 37-112.
   The results of the numerical library calls of one loop pass (the p-value
   of statsmodels' coint, the two np.polyfit slopes) are drawn from small
   sets.  A half-life is kept as [kind, gamma]: "inf", "nan", "negzero"
   (the float -0.0), or "log" for the number ln(2) / ln(1 + gamma). *)

\* list(combinations(cols, 2)) from position i on
RECURSIVE Combinations_swapped(_, _)
Combinations_swapped(cols, i) ==
    IF i >= Len(cols) THEN <<>>
    ELSE [j \in 1 .. Len(cols) - i |-> <<cols[i + j], cols[i]>>]
         \o Combinations_swapped(cols, i + 1)
RECURSIVE Combinations(_, _)
Combinations(cols, i) ==
    IF i >= Len(cols) THEN <<>>
    ELSE [j \in 1 .. Len(cols) - i |-> <<cols[i], cols[i + j]>>]
         \o Combinations(cols, i + 1)

\* utils.test_cointegration line 70: p_value < significance_level
IsCointegrated(p) ==
    p.den # 0 /\ RLess(p, selector.significance_level)

\* lines 106-110; np.log of 0 is -inf, of a negative number NaN
calculate_half_life(gamma) ==
    IF gamma.den = 0 \/ gamma.num >= 0 THEN [kind |-> "inf", gamma |-> gamma]
    ELSE IF gamma.num + gamma.den < 0 THEN [kind |-> "nan", gamma |-> gamma]
    ELSE IF gamma.num + gamma.den = 0
         THEN [kind |-> "negzero", gamma |-> gamma]
    ELSE [kind |-> "log", gamma |-> gamma]

\* m <= half_life for an integer m; for kind "log", with 1 + gamma = a / b,
\* ln(2) / ln(a / b) >= m exactly when m < 0 and 2 * a^(-m) <= b^(-m)
HalfLifeAtLeast(hl, m) ==
    LET a == hl.gamma.num + hl.gamma.den
        b == hl.gamma.den
    IN  CASE hl.kind = "inf" -> TRUE
          [] hl.kind = "nan" -> FALSE
          [] hl.kind = "negzero" -> m <= 0
          [] OTHER -> IF m < 0 THEN 2 * a ^ (-m) <= b ^ (-m) ELSE FALSE

\* half_life <= m for an integer m
HalfLifeAtMost(hl, m) ==
    LET a == hl.gamma.num + hl.gamma.den
        b == hl.gamma.den
    IN  CASE hl.kind = "inf" -> FALSE
          [] hl.kind = "nan" -> FALSE
          [] hl.kind = "negzero" -> 0 <= m
          [] OTHER -> IF m < 0 THEN 2 * a ^ (-m) >= b ^ (-m) ELSE TRUE

\* line 75: self.min_half_life <= half_life <= self.max_half_life
InWindow_upperonly(hl) ==
    HalfLifeAtMost(hl, selector.max_half_life)
InWindow(hl) ==
    /\ HalfLifeAtLeast(hl, selector.min_half_life)
    /\ HalfLifeAtMost(hl, selector.max_half_life)

PValues == {Rat(1, 100), Rat(1, 20), Rat(1, 2), Rat(0, 0)}
Gammas ==
    {Rat(-3, 2), RInt(-1), Rat(-1, 2), Rat(-1, 8), RInt(0), Rat(1, 2),
     Rat(0, 0)}
Slopes == {-1, 2}

\* lines 48-49: self.pairs = [], self.pair_stats = {}
FreshResults_keep(sel) == sel
FreshResults(sel) == [sel EXCEPT !.pairs = <<>>, !.pair_stats = <<>>]

\* lines 47-52
FindBegin ==
    /\ pc = "screen"
    /\ selector' = FreshResults(selector)
    /\ stock_pairs' = Combinations(columns, 1)
    /\ pair_k' = 0
    /\ pc' = "scan"
    /\ UNCHANGED <<Inputs, position1, position2, days_in_position, t,
                   daily_returns, cumulative_returns, price_data, pairs,
                   hedge_ratios, portfolio, pair_i, returns_df, pair_results,
                   returns, performance_metrics, columns, p_value,
                   half_life, outcome>>

ScreenFrame ==
    UNCHANGED <<Inputs, position1, position2, days_in_position, t,
                daily_returns, cumulative_returns, price_data, pairs,
                hedge_ratios, portfolio, pair_i, returns_df, pair_results,
                returns, performance_metrics, columns, stock_pairs, outcome,
                pc>>

\* lines 54-64: the test says the pair is not cointegrated
RejectNotCointegrated ==
    /\ pc = "scan" /\ pair_k < Len(stock_pairs)
    /\ \E p \in PValues : ~IsCointegrated(p) /\ p_value' = p
    /\ pair_k' = pair_k + 1
    /\ UNCHANGED <<selector, half_life>>
    /\ ScreenFrame

\* lines 54-75: cointegrated, half-life outside the window
RejectHalfLife ==
    /\ pc = "scan" /\ pair_k < Len(stock_pairs)
    /\ \E p \in PValues, gamma \in Gammas :
          /\ IsCointegrated(p) /\ ~InWindow(calculate_half_life(gamma))
          /\ p_value' = p
          /\ half_life' = calculate_half_life(gamma)
    /\ pair_k' = pair_k + 1
    /\ UNCHANGED selector
    /\ ScreenFrame

\* lines 54-81: cointegrated, half-life inside the window
AcceptPair ==
    /\ pc = "scan" /\ pair_k < Len(stock_pairs)
    /\ \E p \in PValues, gamma \in Gammas, slope \in Slopes :
          LET pair == stock_pairs[pair_k + 1]
              hl == calculate_half_life(gamma)
          IN  /\ IsCointegrated(p)
              /\ InWindow(hl)
              /\ p_value' = p
              /\ half_life' = hl
              /\ selector' =
                    [selector EXCEPT
                        !.pairs = Append(@, pair),
                        !.pair_stats =
                            DictPut(@, PairKey(pair[1], pair[2]),
                                    [p_value |-> p,
                                     hedge_ratio |-> slope,
                                     half_life |-> hl])]
    /\ pair_k' = pair_k + 1
    /\ ScreenFrame

\* line 83; the locals of the loop end with the call
FindReturn ==
    /\ pc = "scan" /\ pair_k >= Len(stock_pairs)
    /\ p_value' = <<>>
    /\ half_life' = <<>>
    /\ pc' = "screened"
    /\ UNCHANGED <<Inputs, position1, position2, days_in_position, t,
                   daily_returns, cumulative_returns, price_data, pairs,
                   hedge_ratios, portfolio, pair_i, returns_df, pair_results,
                   returns, performance_metrics, selector, columns,
                   stock_pairs, pair_k, outcome>>

\* the same PairSelector is given another frame: the next call of
\* find_cointegrated_pairs, lines 37-40
FindAgain ==
    /\ pc = "screened"
    /\ columns' \in ColumnLists
    /\ pc' = "screen"
    /\ UNCHANGED <<Inputs, position1, position2, days_in_position, t,
                   daily_returns, cumulative_returns, price_data, pairs,
                   hedge_ratios, portfolio, pair_i, returns_df, pair_results,
                   returns, performance_metrics, selector, stock_pairs,
                   pair_k, p_value, half_life, outcome>>

\* PairSelector.get_hedge_ratio(stock1, stock2), lines 134-145: the stored
\* ratio, the inverse of the ratio stored for the reverse order, or a
\* ValueError
get_hedge_ratio(stock1, stock2) ==
    IF PairKey(stock1, stock2) \in DOMAIN selector.pair_stats
    THEN [kind |-> "return",
          value |-> RInt(selector.pair_stats[
                             PairKey(stock1, stock2)].hedge_ratio)]
    ELSE IF PairKey(stock2, stock1) \in DOMAIN selector.pair_stats
    THEN [kind |-> "return",
          value |-> RNorm(1, selector.pair_stats[
                                 PairKey(stock2, stock1)].hedge_ratio)]
    ELSE [kind |-> "ValueError"]

\* a call of get_hedge_ratio after a screener run, for any two names
GetHedgeRatio ==
    /\ pc = "screened"
    /\ \E stock1, stock2 \in Columns :
          outcome' = [call |-> <<stock1, stock2>>,
                      result |-> get_hedge_ratio(stock1, stock2)]
    /\ pc' = "answered"
    /\ UNCHANGED <<Inputs, position1, position2, days_in_position, t,
                   daily_returns, cumulative_returns, price_data, pairs,
                   hedge_ratios, portfolio, pair_i, returns_df, pair_results,
                   returns, performance_metrics, selector, columns,
                   stock_pairs, pair_k, p_value, half_life>>

----------------------------------------------------------------------------
(* StatArbBacktester.run_backtest, backtest.py lines 35-65: the screener on
   the training frame (columns), then the portfolio backtest on the test
   frame (price_data).  The call begins with FindBegin. *)

\* line 53: not pairs
NoPairs_never(found) == FALSE
NoPairs(found) == found = <<>>

\* lines 53-54: raise ValueError
RunNoPairs ==
    /\ pc = "screened"
    /\ NoPairs(selector.pairs)
    /\ outcome' = [kind |-> "ValueError"]
    /\ pc' = "raised"
    /\ UNCHANGED <<Inputs, position1, position2, days_in_position, t,
                   daily_returns, cumulative_returns, price_data, pairs,
                   hedge_ratios, portfolio, pair_i, returns_df, pair_results,
                   returns, performance_metrics, selector, columns,
                   stock_pairs, pair_k, p_value, half_life>>

\* lines 57-62: the hedge-ratio dictionary and the call of backtest
RunPortfolioBacktest ==
    /\ pc = "screened"
    /\ ~NoPairs(selector.pairs)
    /\ pairs' = selector.pairs
    /\ hedge_ratios' =
          [key \in { PairKey(selector.pairs[k][1], selector.pairs[k][2]) :
                        k \in 1 .. Len(selector.pairs) } |->
              selector.pair_stats[key].hedge_ratio]
    /\ pc' = "backtest"
    /\ UNCHANGED <<Inputs, position1, position2, days_in_position, t,
                   daily_returns, cumulative_returns, price_data,
                   portfolio, pair_i, returns_df, pair_results,
                   returns, performance_metrics, ScreenVars>>

\* line 65
RunReturn ==
    /\ pc = "finished"
    /\ outcome' = [kind |-> "return"]
    /\ pc' = "returned"
    /\ UNCHANGED <<Inputs, position1, position2, days_in_position, t,
                   daily_returns, cumulative_returns, price_data, pairs,
                   hedge_ratios, portfolio, pair_i, returns_df, pair_results,
                   returns, performance_metrics, selector, columns,
                   stock_pairs, pair_k, p_value, half_life>>

Next ==
    \/ GenerateSignalsBegin
    \/ EnterLong
    \/ EnterShort
    \/ StayFlat
    \/ ExitPosition
    \/ HoldPosition
    \/ GenerateSignalsReturn

----------------------------------------------------------------------------
(* Inputs of the general specification *)

Price1Series(len) ==
    { [i \in 0 .. len - 1 |-> 1], [i \in 0 .. len - 1 |-> 1 + (i % 2)] }

Price2Series(len) == [0 .. len - 1 -> {1, 2, 3}]

HedgeRatios == {-1, 0, 1}

Strategies ==
    [entry_threshold : {Rat(1, 2), Rat(3, 4)},
     exit_threshold : {Rat(1, 4)},
     stop_loss_threshold : {Rat(1, 1)},
     lookback_period : {2, 3},
     max_position_days : 1 .. MaxHold]

\* nothing outside generate_signals is running
OuterIdle ==
    /\ daily_returns = <<>>
    /\ cumulative_returns = <<>>
    /\ price_data = <<>>
    /\ pairs = <<>>
    /\ hedge_ratios = <<>>
    /\ portfolio = <<>>
    /\ pair_i = 0
    /\ returns_df = <<>>
    /\ pair_results = <<>>
    /\ returns = <<>>
    /\ performance_metrics = <<>>
    /\ selector = <<>>
    /\ columns = <<>>
    /\ stock_pairs = <<>>
    /\ pair_k = 0
    /\ p_value = <<>>
    /\ half_life = <<>>
    /\ outcome = <<>>

Locals0 ==
    /\ spread = <<>>
    /\ zscore = <<>>
    /\ position1 = <<>>
    /\ position2 = <<>>
    /\ days_in_position = 0
    /\ t = 0
    /\ pc = "start"

Init ==
    /\ price1 \in Price1Series(MaxLen)
    /\ price2 \in Price2Series(MaxLen)
    /\ hedge_ratio \in HedgeRatios
    /\ strategy \in Strategies
    /\ Locals0
    /\ OuterIdle

Spec == Init /\ [][Next]_vars

\* the same inputs with a stop-loss threshold close to the entry threshold,
\* so that a stop-loss exit has steps left after it
TightStopStrategies ==
    [entry_threshold : {Rat(1, 2)},
     exit_threshold : {Rat(1, 4)},
     stop_loss_threshold : {Rat(3, 5)},
     lookback_period : {2, 3},
     max_position_days : 1 .. MaxHold]

InitR ==
    /\ price1 \in Price1Series(MaxLen)
    /\ price2 \in Price2Series(MaxLen)
    /\ hedge_ratio \in HedgeRatios
    /\ strategy \in TightStopStrategies
    /\ Locals0
    /\ OuterIdle

SpecR == InitR /\ [][Next]_vars

----------------------------------------------------------------------------
(* Inputs of the portfolio specification: a four-column price frame, a list
   of distinct pairs of its columns, and a sparse hedge-ratio dictionary. *)

MaxPairList == 3

PanelSeries(len) ==
    { [i \in 0 .. len - 1 |-> 1 + (i % 2)],
      [i \in 0 .. len - 1 |-> 2],
      [i \in 0 .. len - 1 |-> 2 ^ i] }

CandidatePairs ==
    { <<ColumnA, ColumnBC>>, <<ColumnAB, ColumnC>>, <<ColumnA, ColumnC>> }

\* lists of distinct candidate pairs, as a screener run produces them
PairLists ==
    { l \in UNION { [1 .. k -> CandidatePairs] : k \in 0 .. MaxPairList } :
        \A x, y \in DOMAIN l : x # y => l[x] # l[y] }

\* no entry at all, or a ratio for two of the three candidate pairs
HedgeRatioMaps ==
    { <<>>,
      [k \in {PairKey(ColumnA, ColumnC), PairKey(ColumnA, ColumnBC)} |->
          IF k = PairKey(ColumnA, ColumnC) THEN 2 ELSE -1] }

Portfolios ==
    { [max_pairs |-> 1, capital_per_pair |-> Rat(1, 5)],
      [max_pairs |-> 2, capital_per_pair |-> Rat(1, 2)] }

PortfolioStrategies ==
    [entry_threshold : {Rat(1, 2)},
     exit_threshold : {Rat(1, 4)},
     stop_loss_threshold : {Rat(1, 1)},
     lookback_period : {2},
     max_position_days : {2, MaxHold}]

InitP ==
    /\ price_data \in [Columns -> PanelSeries(MaxLen)]
    /\ pairs \in PairLists
    /\ hedge_ratios \in HedgeRatioMaps
    /\ portfolio \in Portfolios
    /\ strategy \in PortfolioStrategies
    /\ price1 = <<>> /\ price2 = <<>> /\ hedge_ratio = 0
    /\ spread = <<>> /\ zscore = <<>>
    /\ position1 = <<>> /\ position2 = <<>>
    /\ days_in_position = 0 /\ t = 0
    /\ daily_returns = <<>> /\ cumulative_returns = <<>>
    /\ pair_i = 0 /\ returns_df = <<>> /\ pair_results = <<>>
    /\ returns = <<>> /\ performance_metrics = <<>>
    /\ selector = <<>> /\ columns = <<>> /\ stock_pairs = <<>> /\ pair_k = 0
    /\ p_value = <<>> /\ half_life = <<>> /\ outcome = <<>>
    /\ pc = "backtest"

NextP ==
    \/ BacktestBegin
    \/ PairBegin
    \/ GenerateSignalsBegin
    \/ EnterLong
    \/ EnterShort
    \/ StayFlat
    \/ ExitPosition
    \/ HoldPosition
    \/ GenerateSignalsReturn
    \/ CalculateReturns
    \/ PairStore
    \/ BacktestFinish

SpecP == InitP /\ [][NextP]_vars

----------------------------------------------------------------------------
(* Inputs of the metrics specification: one array of at most MaxSeries
   values, handed to _calculate_performance_metrics or to one of the two
   utility functions. *)

MaxSeries == 4

SeriesValues == {Rat(-1, 2), RInt(0), Rat(1, 2), RInt(1)}

InitM ==
    /\ returns \in UNION { [0 .. k - 1 -> SeriesValues] : k \in 0 .. MaxSeries }
    /\ price1 = <<>> /\ price2 = <<>> /\ hedge_ratio = 0 /\ strategy = <<>>
    /\ spread = <<>> /\ zscore = <<>>
    /\ position1 = <<>> /\ position2 = <<>>
    /\ days_in_position = 0 /\ t = 0
    /\ daily_returns = <<>> /\ cumulative_returns = <<>>
    /\ price_data = <<>> /\ pairs = <<>> /\ hedge_ratios = <<>>
    /\ portfolio = <<>>
    /\ pair_i = 0 /\ returns_df = <<>> /\ pair_results = <<>>
    /\ performance_metrics = <<>>
    /\ selector = <<>> /\ columns = <<>> /\ stock_pairs = <<>> /\ pair_k = 0
    /\ p_value = <<>> /\ half_life = <<>> /\ outcome = <<>>
    /\ pc = "metrics"

NextM ==
    \/ CalculatePerformanceMetrics
    \/ CallSharpeRatio
    \/ CallMaxDrawdown

SpecM == InitM /\ [][NextM]_vars

----------------------------------------------------------------------------
(* Inputs of the screener specification: a fresh PairSelector and the
   column list of a price frame. *)

\* PairSelector(significance_level, min_half_life, max_half_life); the
\* last window is the constructor's default
Selectors ==
    [significance_level : {Rat(1, 20)},
     min_half_life : {-2, 0, 5},
     max_half_life : {100},
     pairs : {<<>>},
     pair_stats : {<<>>}]

InitS ==
    /\ selector \in Selectors
    /\ columns \in ColumnLists
    /\ stock_pairs = <<>> /\ pair_k = 0
    /\ p_value = <<>> /\ half_life = <<>> /\ outcome = <<>>
    /\ price1 = <<>> /\ price2 = <<>> /\ hedge_ratio = 0 /\ strategy = <<>>
    /\ spread = <<>> /\ zscore = <<>>
    /\ position1 = <<>> /\ position2 = <<>>
    /\ days_in_position = 0 /\ t = 0
    /\ daily_returns = <<>> /\ cumulative_returns = <<>>
    /\ price_data = <<>> /\ pairs = <<>> /\ hedge_ratios = <<>>
    /\ portfolio = <<>>
    /\ pair_i = 0 /\ returns_df = <<>> /\ pair_results = <<>>
    /\ returns = <<>> /\ performance_metrics = <<>>
    /\ pc = "screen"

NextS ==
    \/ FindBegin
    \/ RejectNotCointegrated
    \/ RejectHalfLife
    \/ AcceptPair
    \/ FindReturn
    \/ FindAgain
    \/ GetHedgeRatio

SpecS == InitS /\ [][NextS]_vars

----------------------------------------------------------------------------
(* Inputs of the runner specification: a fresh PairSelector, a training
   frame given by its columns, and a test frame with the same columns. *)

TestFrame ==
    [c \in Columns |->
        IF c = ColumnC THEN [i \in 0 .. MaxLen - 1 |-> 2 ^ i]
        ELSE IF c = ColumnA THEN [i \in 0 .. MaxLen - 1 |-> 1]
        ELSE [i \in 0 .. MaxLen - 1 |-> 2]]

RunColumnLists == { <<ColumnA, ColumnC>>, <<ColumnC, ColumnBC, ColumnA>> }

InitB ==
    /\ selector \in Selectors
    /\ columns \in RunColumnLists
    /\ price_data = TestFrame
    /\ portfolio \in Portfolios
    /\ strategy \in PortfolioStrategies
    /\ pairs = <<>> /\ hedge_ratios = <<>>
    /\ stock_pairs = <<>> /\ pair_k = 0
    /\ p_value = <<>> /\ half_life = <<>> /\ outcome = <<>>
    /\ price1 = <<>> /\ price2 = <<>> /\ hedge_ratio = 0
    /\ spread = <<>> /\ zscore = <<>>
    /\ position1 = <<>> /\ position2 = <<>>
    /\ days_in_position = 0 /\ t = 0
    /\ daily_returns = <<>> /\ cumulative_returns = <<>>
    /\ pair_i = 0 /\ returns_df = <<>> /\ pair_results = <<>>
    /\ returns = <<>> /\ performance_metrics = <<>>
    /\ pc = "screen"

NextB ==
    \/ FindBegin
    \/ RejectNotCointegrated
    \/ RejectHalfLife
    \/ AcceptPair
    \/ FindReturn
    \/ RunNoPairs
    \/ RunPortfolioBacktest
    \/ BacktestBegin
    \/ PairBegin
    \/ GenerateSignalsBegin
    \/ EnterLong
    \/ EnterShort
    \/ StayFlat
    \/ ExitPosition
    \/ HoldPosition
    \/ GenerateSignalsReturn
    \/ CalculateReturns
    \/ PairStore
    \/ BacktestFinish
    \/ RunReturn

SpecB == InitB /\ [][NextB]_vars

----------------------------------------------------------------------------
(* Inputs of the default-parameter scenario: 41 observations, a 20-step
   lookback, and a spread that is quiet up to step 23 and then moves. *)

\* PairTradingStrategy() with the constructor's default arguments
DefaultStrategy ==
    [entry_threshold |-> Rat(2, 1),
     exit_threshold |-> Rat(1, 2),
     stop_loss_threshold |-> Rat(4, 1),
     lookback_period |-> 20,
     max_position_days |-> 20]

ScenarioSteps == 0 .. 40

\* spread: alternating 0/1 up to step 23, a at step 24, b at step 25,
\* then either staying at b or back to the quiet pattern up to step 39,
\* and e at step 40
ScenarioSpread(a, b, stay, e) ==
    [i \in ScenarioSteps |->
        IF i < 24 THEN i % 2
        ELSE IF i = 24 THEN a
        ELSE IF i = 25 THEN b
        ELSE IF i < 40 THEN (IF stay THEN b ELSE i % 2)
        ELSE e]

ScenarioSpreads ==
    { ScenarioSpread(a, b, stay, e) :
        a \in {0, 8}, b \in {-8, -6, 1}, stay \in BOOLEAN, e \in {-6, 0, 8} }

InitC ==
    /\ price1 = [i \in ScenarioSteps |-> 10]
    /\ hedge_ratio = 1
    /\ \E sp \in ScenarioSpreads :
          price2 = [i \in ScenarioSteps |-> sp[i] + hedge_ratio * price1[i]]
    /\ strategy = DefaultStrategy
    /\ Locals0
    /\ OuterIdle

SpecC == InitC /\ [][Next]_vars

----------------------------------------------------------------------------
(* Vocabulary of the properties *)

Started == pc # "start"
Lookback == strategy.lookback_period

\* the steps the loop has processed so far
Steps == IF Started THEN {s \in DOMAIN position1 : s >= Lookback /\ s < t}
         ELSE {}

Pos(s) == <<position1[s], position2[s]>>
Flat(s) == position1[s] = 0 /\ position2[s] = 0
Long(s) == position1[s] > 0
Short(s) == position1[s] < 0

RECURSIVE RunLen(_)
\* number of consecutive non-flat steps ending at step s
RunLen(s) == IF s < 0 \/ Flat(s) THEN 0 ELSE 1 + RunLen(s - 1)

BelowEntry(s) == ZLess(zscore[s], RatNeg(strategy.entry_threshold))
AboveEntry(s) == ZGreater(zscore[s], strategy.entry_threshold)

\* the exit conditions of a long / short spread at step s, read off the
\* arrays: days held counts the non-flat steps so far plus the current one
LongExit(s) ==
    \/ ZGreater(zscore[s], RatNeg(strategy.exit_threshold))
    \/ ZLess(zscore[s], RatNeg(strategy.stop_loss_threshold))
    \/ RunLen(s - 1) + 1 >= strategy.max_position_days
ShortExit(s) ==
    \/ ZLess(zscore[s], strategy.exit_threshold)
    \/ ZGreater(zscore[s], strategy.stop_loss_threshold)
    \/ RunLen(s - 1) + 1 >= strategy.max_position_days

\* the trailing window of `Lookback` observations ending at i is not constant,
\* i.e. the rolling standard deviation at i is > 0
WindowVaries(i) ==
    \E j, k \in (i - Lookback + 1) .. i : spread[j] # spread[k]

----------------------------------------------------------------------------
(* C1: at every step where position1 is nonzero, position2 equals
   -hedge_ratio * position1. *)
C1_HedgeLegs ==
    Started =>
        \A i \in DOMAIN position1 :
            position1[i] # 0 => position2[i] = (-hedge_ratio) * position1[i]

C1_Witness ==
    /\ pc = "done" /\ hedge_ratio # 0
    /\ \E i, j \in DOMAIN position1 : position1[i] = 1 /\ position1[j] = -1

(* C2: no position exists before lookback_period: position1[i] = 0 and
   position2[i] = 0 for every i < lookback_period. *)
C2_NoWarmupPosition ==
    Started =>
        \A i \in DOMAIN position1 :
            i < Lookback => position1[i] = 0 /\ position2[i] = 0

C2_Witness ==
    /\ pc = "done" /\ Lookback >= 2 /\ Lookback < n
    /\ ~Flat(Lookback)

(* C3: every run of consecutive non-flat steps has length at most
   max_position_days. *)
C3_HoldingBounded ==
    Started =>
        \A s \in DOMAIN position1 : RunLen(s) <= strategy.max_position_days

\* a position closed by the holding limit alone
C3_Witness ==
    /\ strategy.max_position_days >= 2
    /\ \E s \in Steps :
          /\ Long(s - 1) /\ Flat(s)
          /\ ~ZGreater(zscore[s], RatNeg(strategy.exit_threshold))
          /\ ~ZLess(zscore[s], RatNeg(strategy.stop_loss_threshold))

(* C4: at a processed step whose previous step is flat, a z-score below
   -entry_threshold writes (1, -hedge_ratio), a z-score above
   +entry_threshold writes (-1, hedge_ratio), any other z-score leaves (0, 0). *)
C4_EntryTransition ==
    \A s \in Steps :
        Flat(s - 1) =>
            /\ BelowEntry(s) => Pos(s) = <<1, -hedge_ratio>>
            /\ AboveEntry(s) => Pos(s) = <<-1, hedge_ratio>>
            /\ ~BelowEntry(s) /\ ~AboveEntry(s) => Pos(s) = <<0, 0>>

C4_Witness ==
    /\ pc = "done"
    /\ \E s \in Steps : Flat(s - 1) /\ BelowEntry(s) /\ Long(s)
    /\ \E s \in Steps : Flat(s - 1) /\ AboveEntry(s) /\ Short(s)

(* C5: at a processed step whose previous step is long, the step is flat
   exactly when zscore > -exit_threshold, or zscore < -stop_loss_threshold,
   or the days held reach max_position_days; otherwise the previous pair is
   copied.  Mirror conditions from short. *)
C5_ExitTransition ==
    \A s \in Steps :
        /\ Long(s - 1) =>
              /\ Flat(s) <=> LongExit(s)
              /\ ~LongExit(s) => Pos(s) = Pos(s - 1)
        /\ Short(s - 1) =>
              /\ Flat(s) <=> ShortExit(s)
              /\ ~ShortExit(s) => Pos(s) = Pos(s - 1)

\* a held long spread closed by its stop loss before the holding limit
C5_Witness ==
    \E s \in Steps :
        /\ Long(s - 1) /\ Flat(s)
        /\ ZLess(zscore[s], RatNeg(strategy.stop_loss_threshold))
        /\ RunLen(s - 1) + 1 < strategy.max_position_days

(* C6: between consecutive steps the pair changes only by an entry from
   flat or an exit to flat; a held pair without exit condition is copied,
   and long is never directly followed by short or short by long. *)
C6_OnlyEntryOrExit ==
    Started =>
        \A s \in DOMAIN position1 :
            s >= 1 =>
                /\ Pos(s) # Pos(s - 1) => Flat(s - 1) \/ Flat(s)
                /\ ~(Long(s - 1) /\ Short(s))
                /\ ~(Short(s - 1) /\ Long(s))
                /\ (s \in Steps /\ Long(s - 1) /\ ~LongExit(s))
                      => Pos(s) = Pos(s - 1)
                /\ (s \in Steps /\ Short(s - 1) /\ ~ShortExit(s))
                      => Pos(s) = Pos(s - 1)

\* a pair with a zero second leg is held, then the opposite signal arrives
C6_Witness ==
    /\ hedge_ratio = 0
    /\ \E s \in Steps : Long(s - 1) /\ AboveEntry(s) /\ Flat(s)
    /\ \E s \in Steps : Long(s - 1) /\ Pos(s) = Pos(s - 1)

(* C7: a step that exits a position is written (0, 0) even when its z-score
   lies beyond an entry threshold; a position is open at a step whose
   previous step was not flat only as the copy of the previous pair. *)
C7_NoSameStepReentry ==
    \A s \in Steps :
        ~Flat(s - 1) =>
            /\ Pos(s) # Pos(s - 1) => Pos(s) = <<0, 0>>
            /\ (IF Long(s - 1) THEN LongExit(s) ELSE ShortExit(s))
                  => Pos(s) = <<0, 0>>

\* an exit at a z-score beyond the entry threshold, re-entered one step later
C7_Witness ==
    \E s \in Steps :
        /\ ~Flat(s - 1) /\ Flat(s)
        /\ BelowEntry(s) \/ AboveEntry(s)
        /\ s + 1 \in Steps /\ ~Flat(s + 1)

----------------------------------------------------------------------------
(* C8 as stated (Scenario C, default parameters): a z-score that crosses
   below -2.0 at step 25 gives position1[25] = 1, and a z-score above -0.5
   at step 40 gives position1[40] = 0. *)
C8_Original ==
    (pc = "done" /\ ~ZLess(zscore[24], Rat(-2, 1))
                 /\ ZLess(zscore[25], Rat(-2, 1)))
        => /\ position1[25] = 1
           /\ ZGreater(zscore[40], Rat(-1, 2)) => position1[40] = 0

(* C8 as amended: if step 24 is flat and the z-score is below -2.0 at step
   25 then position1[25] = 1; if a long spread is still held at step 39 and
   the z-score is above -0.5 at step 40 then position1[40] = 0. *)
C8_ScenarioC ==
    pc = "done" =>
        /\ (Flat(24) /\ ZLess(zscore[25], Rat(-2, 1))) => position1[25] = 1
        /\ (Long(39) /\ ZGreater(zscore[40], Rat(-1, 2))) => position1[40] = 0

\* the scenario itself: flat up to step 24, long from step 25 through step
\* 39, closed at step 40 by the z-score coming back above -0.5
C8_Witness ==
    /\ pc = "done"
    /\ \A s \in 0 .. 24 : Flat(s)
    /\ ~ZLess(zscore[24], Rat(-2, 1)) /\ ZLess(zscore[25], Rat(-2, 1))
    /\ \A s \in 25 .. 39 : position1[s] = 1
    /\ ZGreater(zscore[40], Rat(-1, 2))
    /\ position1[40] = 0

(* C9: the z-score array has the length of the spread, is exactly 0 at
   every index < window, and is finite at every index >= window whose
   rolling standard deviation is > 0. *)
C9_ZScoreShape ==
    Started =>
        /\ DOMAIN zscore = DOMAIN spread
        /\ \A i \in DOMAIN zscore :
              /\ i < Lookback => ZIsZero(zscore[i])
              /\ (i >= Lookback /\ WindowVaries(i)) => ZIsFinite(zscore[i])

C9_Witness ==
    /\ Started
    /\ \E i \in DOMAIN zscore :
          i >= Lookback /\ WindowVaries(i) /\ ZIsFinite(zscore[i])
             /\ ~ZIsZero(zscore[i])
    /\ \E i \in DOMAIN zscore : i >= Lookback /\ ~ZIsFinite(zscore[i])
    /\ WindowVaries(Lookback - 1)

\* Reference value of (spread - rolling_mean) / rolling_std at index i, from
\* the two-pass definitions: mean = S / w, deviations d_j = x_j - mean,
\* std^2 = sum(d_j^2) / (w - 1).  WDev(i, j) is w * d_j.
WSum(i) == SumOver(spread, i - Lookback + 1, i)
WDev(i, j) == Lookback * spread[j] - WSum(i)

RECURSIVE WDevSq(_, _)
\* sum of (w * d_j)^2 over the last k observations of the window ending at i
WDevSq(i, k) ==
    IF k = 0 THEN 0
    ELSE WDev(i, i - k + 1) * WDev(i, i - k + 1) + WDevSq(i, k - 1)

Sign(x) == IF x > 0 THEN 1 ELSE IF x < 0 THEN -1 ELSE 0

\* z is the value (spread[i] - mean) / std for the complete window ending
\* at i: NaN when std is 0 or undefined, else equal sign and equal square,
\*   z^2 = (w*d_i)^2 * (w - 1) / sum((w*d_j)^2)
IsZOfWindow(z, i) ==
    LET w == Lookback
        ss == WDevSq(i, w)
    IN  IF w < 2 \/ ss = 0 THEN z.kind = "nan"
        ELSE /\ z.kind = "fin"
             /\ Sign(z.num) = Sign(WDev(i, i))
             /\ z.num * z.num * z.vden * ss
                   = WDev(i, i) * WDev(i, i) * (w - 1) * z.vnum * z.den * z.den

(* C10 as stated: at every index whose trailing window is complete, the first
   being lookback_period - 1, the z-score is (spread - mean) / std. *)
C10_Original ==
    Started =>
        \A i \in DOMAIN zscore :
            i >= Lookback - 1 => IsZOfWindow(zscore[i], i)

(* C10 as amended: at every index >= lookback_period the z-score is
   (spread - mean) / std; at every index < lookback_period it is 0,
   index lookback_period - 1 with its complete window included. *)
C10_ZScoreFromWindow ==
    Started =>
        \A i \in DOMAIN zscore :
            /\ i >= Lookback => IsZOfWindow(zscore[i], i)
            /\ i < Lookback => ZIsZero(zscore[i])

\* the window ending at lookback_period - 1 is complete and gives a nonzero
\* quotient, and a later index carries a nonzero z-score
C10_Witness ==
    /\ Started /\ Lookback >= 2
    /\ WindowVaries(Lookback - 1)
    /\ WDev(Lookback - 1, Lookback - 1) # 0
    /\ ZIsZero(zscore[Lookback - 1])
    /\ \E i \in DOMAIN zscore :
          i >= Lookback /\ ZIsFinite(zscore[i]) /\ ~ZIsZero(zscore[i])

----------------------------------------------------------------------------
(* C11: at a processed step whose rolling standard deviation is zero (the
   trailing window is constant) the z-score is NaN, no entry comparison
   holds, and a flat previous step stays flat; the call still returns. *)
C11_DegenerateStd ==
    /\ \A s \in Steps :
          ~WindowVaries(s) =>
              /\ zscore[s].kind = "nan"
              /\ ~BelowEntry(s) /\ ~AboveEntry(s)
              /\ Flat(s - 1) => Flat(s)
    /\ (pc = "loop" /\ t < n /\ ~WindowVaries(t)) => ENABLED Next

\* a constant window met while flat, and the call has returned
C11_Witness ==
    /\ pc = "done"
    /\ \E s \in Steps : ~WindowVaries(s) /\ Flat(s - 1) /\ Flat(s)
    /\ \E s \in Steps : ~Flat(s)

----------------------------------------------------------------------------
(* C12: calculate_returns gives daily_returns[0] = 0 and, for s >= 1,
   daily_returns[s] = position1[s-1] * r1[s] + position2[s-1] * r2[s] with
   r[s] = (price[s] - price[s-1]) / price[s-1]; so the return is 0 at a
   step whose previous step held no position.  The equation is stated on
   integers, both sides multiplied by price1[s-1] * price2[s-1]. *)
C12_DailyReturns ==
    pc = "returns" =>
        /\ DOMAIN daily_returns = DOMAIN price1
        /\ daily_returns[0] = RInt(0)
        /\ \A s \in DOMAIN price1 \ {0} :
              LET d == daily_returns[s]
              IN  /\ d.den > 0
                  /\ d.num * price1[s - 1] * price2[s - 1] =
                        d.den *
                          ( position1[s - 1] * (price1[s] - price1[s - 1])
                              * price2[s - 1]
                          + position2[s - 1] * (price2[s] - price2[s - 1])
                              * price1[s - 1] )
                  /\ Flat(s - 1) => d = RInt(0)

\* a pair whose two legs both moved while held, after a flat stretch
C12_Witness ==
    /\ pc = "returns"
    /\ \E s \in DOMAIN price1 \ {0} :
          /\ position1[s - 1] # 0 /\ position2[s - 1] # 0
          /\ price1[s] # price1[s - 1] /\ price2[s] # price2[s - 1]
          /\ daily_returns[s] # RInt(0)
    /\ \E s \in DOMAIN price1 \ {0} :
          Flat(s - 1) /\ price1[s] # price1[s - 1]

----------------------------------------------------------------------------
\* cum is the running compounding product of daily, less one
IsCompounded(cum, daily) ==
    /\ DOMAIN cum = DOMAIN daily
    /\ cum[0] = daily[0]
    /\ \A s \in DOMAIN daily \ {0} :
          RAdd(RInt(1), cum[s]) =
              RMul(RAdd(RInt(1), cum[s - 1]), RAdd(RInt(1), daily[s]))

(* C13: cumulative returns compound the daily returns, for each traded pair
   and for the portfolio: cumulative[0] = daily[0] and
   1 + cumulative[s] = (1 + cumulative[s-1]) * (1 + daily[s]). *)
C13_Compounding ==
    /\ pc = "returns" => IsCompounded(cumulative_returns, daily_returns)
    /\ pc \in {"pairs", "finished"} =>
          \A key \in DOMAIN pair_results :
              IsCompounded(pair_results[key].cumulative_returns,
                           pair_results[key].daily_returns)
    /\ pc = "finished" =>
          IsCompounded(returns_df.portfolio_cumulative_return,
                       returns_df.portfolio_return)

\* a finished backtest whose portfolio and one pair each had two nonzero
\* daily returns, so that compounding differs from adding
C13_Witness ==
    /\ pc = "finished"
    /\ \E s1, s2 \in DOMAIN returns_df.portfolio_return :
          /\ s1 < s2
          /\ returns_df.portfolio_return[s1] # RInt(0)
          /\ returns_df.portfolio_return[s2] # RInt(0)
          /\ returns_df.portfolio_cumulative_return[s2] #
                RAdd(returns_df.portfolio_return[s1],
                     returns_df.portfolio_return[s2])
    /\ \E key \in DOMAIN pair_results :
          \E s1, s2 \in DOMAIN pair_results[key].daily_returns :
              /\ s1 < s2
              /\ pair_results[key].daily_returns[s1] # RInt(0)
              /\ pair_results[key].daily_returns[s2] # RInt(0)

----------------------------------------------------------------------------
(* C14: after a backtest pair_results holds exactly one entry per traded
   pair, keyed by the pair's two instruments and holding that pair's own
   unscaled returns; its size is the number of traded pairs, which is
   min(len(pairs), max_pairs).  The code does not do this when two traded
   pairs share the key f"{stock1}_{stock2}". *)
C14_Original ==
    pc = "finished" =>
        /\ Len(pairs) <= portfolio.max_pairs
        /\ Cardinality(DOMAIN pair_results) = Len(pairs)
        /\ \A k \in 1 .. Len(pairs) :
              /\ PairKey(pairs[k][1], pairs[k][2]) \in DOMAIN pair_results
              /\ pair_results[PairKey(pairs[k][1], pairs[k][2])].daily_returns
                    = returns_df.pair_return[k]

----------------------------------------------------------------------------
\* sum at step s of the first k per-pair return columns
RECURSIVE SumColumns(_, _, _)
SumColumns(cols, s, k) ==
    IF k = 0 THEN RInt(0) ELSE RAdd(SumColumns(cols, s, k - 1), cols[k][s])

(* C15: at every step the portfolio's daily return is capital_per_pair
   times the sum of the traded pairs' daily returns, with no division by
   the number of pairs; one return column exists per pair traded so far. *)
C15_PortfolioReturn ==
    pc \in {"pairs", "finished"} =>
        /\ Len(returns_df.pair_return) = pair_i
        /\ \A s \in DOMAIN returns_df.portfolio_return :
              returns_df.portfolio_return[s] =
                  RMul(portfolio.capital_per_pair,
                       SumColumns(returns_df.pair_return, s, pair_i))

\* capital 1/2 and two pairs with the same nonzero return at one step: the
\* portfolio's return at that step is that return
C15_Witness ==
    /\ pc = "finished"
    /\ portfolio.capital_per_pair = Rat(1, 2)
    /\ Len(returns_df.pair_return) = 2
    /\ \E s \in DOMAIN returns_df.portfolio_return :
          /\ returns_df.pair_return[1][s] # RInt(0)
          /\ returns_df.pair_return[1][s] = returns_df.pair_return[2][s]
          /\ returns_df.portfolio_return[s] = returns_df.pair_return[1][s]

----------------------------------------------------------------------------
\* a float result that is a number in [0, 1]
InUnitInterval(x) ==
    x.kind = "fin" /\ x.val.num >= 0 /\ x.val.num <= x.val.den

(* C16: calculate_max_drawdown returns a value in [0, 1] for every
   cumulative-return series that never drops below -100%, whatever the sign
   of its running maximum, and 0.0 for an empty series; the same holds for
   the max_drawdown of _calculate_performance_metrics.  The code does not
   do this: it divides by the running maximum itself. *)
C16_Original ==
    /\ pc = "drawdown_done" =>
          /\ InUnitInterval(performance_metrics.max_drawdown)
          /\ Len0(returns) = 0 =>
                performance_metrics.max_drawdown = Fin(RInt(0))
    /\ pc = "metrics_done" => InUnitInterval(performance_metrics.max_drawdown)

----------------------------------------------------------------------------
(* C17: an all-zero return series gives sharpe_ratio = 0.0,
   max_drawdown = 0.0, win_rate = 0 and num_trades = 0.  The code returns
   the other three values but NaN for max_drawdown. *)
C17_Original ==
    (pc = "metrics_done" /\ \A k \in DOMAIN returns : returns[k] = RInt(0)) =>
        /\ performance_metrics.sharpe_ratio = SharpeZero
        /\ performance_metrics.max_drawdown = Fin(RInt(0))
        /\ performance_metrics.win_rate = RInt(0)
        /\ performance_metrics.num_trades = 0

----------------------------------------------------------------------------
(* C18: calculate_sharpe_ratio returns exactly 0.0 when the series is empty
   or its standard deviation is zero (all excess returns equal), and
   otherwise mean / std * sqrt(252) of the excess returns, std being the
   population standard deviation.  With e[k] the excess returns, S their
   sum and len their number: mean * len = S and
   std^2 * len^3 = sum of (len * e[k] - S)^2. *)
C18_SharpeRatio ==
    pc = "sharpe_done" =>
        LET len == Len0(returns)
            e == [k \in DOMAIN returns |->
                     RSub(returns[k], performance_metrics.risk_free_rate)]
            sum[k \in DOMAIN returns] ==
                IF k = 0 THEN e[0] ELSE RAdd(sum[k - 1], e[k])
            S == sum[len - 1]
            dev == [k \in DOMAIN returns |-> RSub(RMul(RInt(len), e[k]), S)]
            sq[k \in DOMAIN returns] ==
                IF k = 0 THEN RMul(dev[0], dev[0])
                ELSE RAdd(sq[k - 1], RMul(dev[k], dev[k]))
            sharpe == performance_metrics.sharpe_ratio
        IN  IF len = 0 \/ \A j, k \in DOMAIN returns : returns[j] = returns[k]
            THEN sharpe = SharpeZero
            ELSE /\ sharpe.kind = "ratio"
                 /\ sharpe.annual = 252
                 /\ RMul(sharpe.mean, RInt(len)) = S
                 /\ RMul(sharpe.var, RInt(len * len * len)) = sq[len - 1]
                 /\ sharpe.var.num > 0

\* a constant nonzero series of several values: zero deviation, result 0.0
C18_Witness ==
    /\ pc = "sharpe_done"
    /\ Len0(returns) >= 2
    /\ \A k \in DOMAIN returns : returns[k] = Rat(1, 2)
    /\ performance_metrics.risk_free_rate = RInt(0)
    /\ performance_metrics.sharpe_ratio = SharpeZero

----------------------------------------------------------------------------
\* first indices of the maximal contiguous runs of nonzero values
RunStarts(a) ==
    {k \in DOMAIN a : a[k] # RInt(0) /\ (k = 0 \/ a[k - 1] = RInt(0))}

\* last index of the run that starts at k
RunEnd(a, k) ==
    CHOOSE j \in DOMAIN a :
        /\ j >= k
        /\ \A m \in k .. j : a[m] # RInt(0)
        /\ (j + 1 \in DOMAIN a => a[j + 1] = RInt(0))

\* the runs whose compounded return is strictly positive
WinningRuns(a) ==
    {k \in RunStarts(a) :
        RSub(ProdOnePlus(a, k, RunEnd(a, k)), RInt(1)).num > 0}

(* C19: for any return series, also one whose first or last element is
   nonzero, num_trades is the number of maximal contiguous runs of nonzero
   returns and win_rate is the fraction of those runs whose compounded
   return is strictly positive (0 when there is no run).  The code does not
   do this for a series whose first element is nonzero. *)
C19_Original ==
    pc = "metrics_done" =>
        /\ performance_metrics.num_trades = Cardinality(RunStarts(returns))
        /\ performance_metrics.win_rate =
              IF RunStarts(returns) = {} THEN RInt(0)
              ELSE RNorm(Cardinality(WinningRuns(returns)),
                         Cardinality(RunStarts(returns)))

----------------------------------------------------------------------------
(* C20: every pair the screener has accepted has p_value below the
   significance level and a half-life inside [min_half_life, max_half_life];
   a pair whose half-life is infinite or NaN is never accepted.  For a
   half-life ln(2) / ln(a / b) with 0 < a < b, which is negative, being
   at least m means m < 0 and 2 * a^(-m) <= b^(-m), and being at most a
   negative m means 2 * a^(-m) >= b^(-m). *)
C20_AcceptedInWindow ==
    pc \in {"scan", "screened"} =>
        \A k \in 1 .. Len(selector.pairs) :
            LET key == PairKey(selector.pairs[k][1], selector.pairs[k][2])
                st == selector.pair_stats[key]
                hl == st.half_life
                lo == selector.min_half_life
                hi == selector.max_half_life
                a == hl.gamma.num + hl.gamma.den
                b == hl.gamma.den
            IN  /\ key \in DOMAIN selector.pair_stats
                /\ st.p_value.den > 0
                /\ st.p_value.num * selector.significance_level.den <
                      selector.significance_level.num * st.p_value.den
                /\ hl.kind \notin {"inf", "nan"}
                /\ hl.kind = "negzero" => (lo <= 0 /\ 0 <= hi)
                /\ hl.kind = "log" =>
                      /\ 0 < a /\ a < b
                      /\ lo < 0
                      /\ 2 * a ^ Abs(lo) <= b ^ Abs(lo)
                      /\ hi < 0 => 2 * a ^ Abs(hi) >= b ^ Abs(hi)

\* a finished scan that accepted a pair with a finite nonzero half-life and
\* passed over at least one other pair
C20_Witness ==
    /\ pc = "screened"
    /\ Len(selector.pairs) >= 1
    /\ Len(selector.pairs) < Len(stock_pairs)
    /\ \E key \in DOMAIN selector.pair_stats :
          selector.pair_stats[key].half_life.kind = "log"

----------------------------------------------------------------------------
(* Vocabulary of the screener claims.  With 1 + gamma = a / b, the number
   ln(2) / ln(a / b) is positive exactly when a > b, and its negation, the
   half-life of a spread that reverts with coefficient gamma, lies in
   [lo, hi] exactly when b^lo <= 2 * a^lo and 2 * a^hi <= b^hi. *)

\* a half-life value that is a positive real number
PositiveFinite(hl) ==
    hl.kind = "log" /\ hl.gamma.num + hl.gamma.den > hl.gamma.den

\* gamma is a number strictly between -1 and 0
MeanReverting(gamma) ==
    gamma.den > 0 /\ gamma.num < 0 /\ gamma.num + gamma.den > 0

\* C21: the half-life the screener computes is a positive real number when
\* -1 < gamma < 0 and +inf when gamma >= 0, and every half-life recorded in
\* pair_stats is greater than 0.
C21_Original ==
    /\ (pc = "scan" /\ half_life # <<>>) =>
          /\ MeanReverting(half_life.gamma) => PositiveFinite(half_life)
          /\ (half_life.gamma.den > 0 /\ half_life.gamma.num >= 0) =>
                half_life.kind = "inf"
    /\ pc \in {"scan", "screened"} =>
          \A key \in DOMAIN selector.pair_stats :
              LET hl == selector.pair_stats[key].half_life
              IN  hl.kind = "inf" \/ PositiveFinite(hl)

\* PairSelector.__init__ defaults of the acceptance window
MinHalfLifeDefault == 5
MaxHalfLifeDefault == 100

\* the half-life -ln(2) / ln(1 + gamma) of a mean-reverting spread lies in
\* [lo, hi], for integers 0 < lo <= hi
TrueHalfLifeIn(gamma, lo, hi) ==
    LET a == gamma.num + gamma.den
        b == gamma.den
    IN  /\ MeanReverting(gamma)
        /\ b ^ lo <= 2 * a ^ lo
        /\ \E k \in 1 .. hi : 2 * a ^ k <= b ^ k

\* C22: with the default window [5, 100] the screener accepts a pair whose
\* p-value is significant and whose spread reverts with a half-life inside
\* the window, so a frame that holds such a pair gives a non-empty list.
C22_Original ==
    (/\ pc = "scan"
     /\ pair_k >= 1
     /\ selector.min_half_life = MinHalfLifeDefault
     /\ selector.max_half_life = MaxHalfLifeDefault
     /\ IsCointegrated(p_value)
     /\ TrueHalfLifeIn(half_life.gamma, MinHalfLifeDefault,
                       MaxHalfLifeDefault))
    => /\ selector.pairs # <<>>
       /\ selector.pairs[Len(selector.pairs)] = stock_pairs[pair_k]

\* position of a column name in the frame
ColumnIndex(c) == CHOOSE i \in 1 .. Len(columns) : columns[i] = c

\* C23: the accepted pairs come in the enumeration order of the
\* 2-combinations over the frame's column order, without ranking: both
\* members of a pair are columns of the frame, the first stands before the
\* second in the frame, and the pairs are in strictly increasing
\* lexicographic order of their two column positions, so that no unordered
\* pair appears twice.
C23_EnumerationOrder ==
    pc \in {"scan", "screened"} =>
        /\ \A k \in 1 .. Len(selector.pairs) :
              LET pair == selector.pairs[k]
              IN  /\ \E i \in 1 .. Len(columns) : columns[i] = pair[1]
                  /\ \E i \in 1 .. Len(columns) : columns[i] = pair[2]
                  /\ pair[1] # pair[2]
                  /\ ColumnIndex(pair[1]) < ColumnIndex(pair[2])
        /\ \A k, l \in 1 .. Len(selector.pairs) :
              k < l =>
                  LET ik == ColumnIndex(selector.pairs[k][1])
                      jk == ColumnIndex(selector.pairs[k][2])
                      il == ColumnIndex(selector.pairs[l][1])
                      jl == ColumnIndex(selector.pairs[l][2])
                  IN  ik < il \/ (ik = il /\ jk < jl)

\* a finished scan that accepted a pair and, later, another pair with a
\* smaller half-life and a smaller hedge ratio, leaving out a pair between
C23_Witness ==
    /\ pc = "screened"
    /\ \E k \in 1 .. Len(selector.pairs) - 1 :
          LET st1 == selector.pair_stats[PairKey(selector.pairs[k][1],
                                                 selector.pairs[k][2])]
              st2 == selector.pair_stats[PairKey(selector.pairs[k + 1][1],
                                                 selector.pairs[k + 1][2])]
          IN  /\ st1.half_life.kind = "negzero"
              /\ st2.half_life.kind = "log"
              /\ st2.hedge_ratio < st1.hedge_ratio
              /\ ColumnIndex(selector.pairs[k + 1][2]) >
                    ColumnIndex(selector.pairs[k][2]) + 1

----------------------------------------------------------------------------
(* Claims about the runner and about the screener's accessors *)

\* no part of the portfolio backtest has run
NothingProduced ==
    /\ returns_df = <<>>
    /\ pair_results = <<>>
    /\ returns = <<>>
    /\ performance_metrics = <<>>

\* C24: when the screener accepts no pair on the training frame,
\* run_backtest raises a ValueError before the portfolio backtest is
\* invoked: once the screening is over with an empty list the call is at
\* the raise or has raised, without returns, metrics or pair results; and
\* a ValueError comes from nothing else.
C24_NoPairsFound ==
    /\ (pc \notin {"screen", "scan", "screened"} /\ selector.pairs = <<>>) =>
          /\ pc = "raised"
          /\ outcome = [kind |-> "ValueError"]
          /\ NothingProduced
    /\ (pc = "screened" /\ selector.pairs = <<>>) =>
          /\ ENABLED RunNoPairs
          /\ ~ENABLED RunPortfolioBacktest
          /\ NothingProduced
    /\ outcome # <<>> =>
          (outcome.kind = "ValueError" <=> selector.pairs = <<>>)

\* the screener looked at three candidate pairs, accepted none, and the
\* call ended with the ValueError
C24_Witness ==
    /\ pc = "raised"
    /\ outcome = [kind |-> "ValueError"]
    /\ pair_k = 3
    /\ selector.pairs = <<>>

\* the screener recorded the ordered pair (stock1, stock2)
Recorded(stock1, stock2) ==
    \E k \in 1 .. Len(selector.pairs) : selector.pairs[k] = <<stock1, stock2>>

\* C25: get_hedge_ratio(s1, s2) returns the stored hedge ratio when the
\* pair is recorded as (s1, s2), its reciprocal when the pair is recorded
\* only as (s2, s1), and raises a ValueError when the pair is recorded in
\* neither orientation.
C25_Original ==
    pc = "answered" =>
        LET stock1 == outcome.call[1]
            stock2 == outcome.call[2]
            stats == selector.pair_stats
        IN  /\ Recorded(stock1, stock2) =>
                  /\ outcome.result.kind = "return"
                  /\ outcome.result.value =
                        RInt(stats[PairKey(stock1, stock2)].hedge_ratio)
            /\ (~Recorded(stock1, stock2) /\ Recorded(stock2, stock1)) =>
                  /\ outcome.result.kind = "return"
                  /\ RMul(outcome.result.value,
                          RInt(stats[PairKey(stock2, stock1)].hedge_ratio))
                        = RInt(1)
            /\ (~Recorded(stock1, stock2) /\ ~Recorded(stock2, stock1)) =>
                  outcome.result.kind = "ValueError"

\* C26: nothing persists across screener runs: during and after any call of
\* find_cointegrated_pairs on one PairSelector, pairs holds only pairs that
\* this call has looked at, in its own enumeration, and the keys of
\* pair_stats are exactly the keys of the pairs in pairs.
C26_NoResidue ==
    pc \in {"scan", "screened"} =>
        /\ Len(selector.pairs) <= pair_k
        /\ \A k \in 1 .. Len(selector.pairs) :
              \E j \in 1 .. pair_k : stock_pairs[j] = selector.pairs[k]
        /\ DOMAIN selector.pair_stats =
              { PairKey(selector.pairs[k][1], selector.pairs[k][2]) :
                    k \in 1 .. Len(selector.pairs) }

\* the selector holds the results of a finished call, one of them a pair
\* with a column that the frame of the call about to begin does not have
C26_Witness ==
    /\ pc = "screen"
    /\ pair_k = Len(stock_pairs)
    /\ \E k \in 1 .. Len(selector.pairs) :
          \A i \in 1 .. Len(columns) : columns[i] # selector.pairs[k][1]
    /\ DOMAIN selector.pair_stats # {}

----------------------------------------------------------------------------
(* Claims about the portfolio backtest's hedge ratios and first step *)

\* C27: the backtest trades a pair whose key is missing from hedge_ratios
\* with the hedge ratio 1.0 and any other pair with the supplied ratio: the
\* spread of the pair being processed is price2 - ratio * price1 for that
\* ratio, and every pair of the list gets its column of returns and its
\* results, none is skipped and none stops the backtest.
C27_DefaultHedgeRatio ==
    /\ pc \in {"start", "loop", "done", "returns"} =>
          LET stock1 == pairs[pair_i + 1][1]
              stock2 == pairs[pair_i + 1][2]
              key == stock1 \o <<"_">> \o stock2
              ratio == IF key \in DOMAIN hedge_ratios THEN hedge_ratios[key]
                       ELSE 1
          IN  /\ hedge_ratio = ratio
              /\ pc # "start" =>
                    /\ DOMAIN spread = DOMAIN price_data[stock1]
                    /\ \A i \in DOMAIN spread :
                          spread[i] = price_data[stock2][i]
                                        - ratio * price_data[stock1][i]
    /\ pc \in {"pairs", "finished"} =>
          /\ Len(returns_df.pair_return) = pair_i
          /\ \A k \in 1 .. pair_i :
                (pairs[k][1] \o <<"_">> \o pairs[k][2]) \in
                    DOMAIN pair_results
          /\ pc = "finished" => pair_i = Len(pairs)

\* the second pair of a backtest without any supplied ratio has been traded
\* on the spread price2 - price1 and has held a position
C27_Witness ==
    /\ pc = "returns"
    /\ pair_i = 1
    /\ hedge_ratios = <<>>
    /\ hedge_ratio = 1
    /\ \E i \in DOMAIN spread :
          /\ spread[i] = price2[i] - price1[i]
          /\ position1[i] # 0
          /\ position2[i] = -position1[i]

----------------------------------------------------------------------------
(* Claims about the days-held counter and about re-entry *)

\* a position is opened at step s
EnteredAt(s) == ~Flat(s) /\ (s = 0 \/ Flat(s - 1))

\* after the last processed step the counter is the length of the run of
\* non-flat steps that ends there: 0 exactly when that step is flat
CounterIsRunLength ==
    /\ pc = "loop" /\ t = Lookback => days_in_position = 0
    /\ (pc \in {"loop", "done"} /\ t > Lookback) =>
          /\ days_in_position = RunLen(t - 1)
          /\ days_in_position = 0 <=> Flat(t - 1)

\* C28 as stated: the counter is the run length, and a position entered at
\* step s is flat again no later than step s + max_position_days - 1, for
\* every max_position_days.
C28_Original ==
    /\ CounterIsRunLength
    /\ \A s \in Steps :
          (EnteredAt(s) /\ s + strategy.max_position_days - 1 < t) =>
              \E u \in s .. s + strategy.max_position_days - 1 : Flat(u)
    /\ strategy.max_position_days >= 2 =>
          \A s \in Steps : RunLen(s) <= strategy.max_position_days - 1

\* C28, amended: the counter is the run length; for max_position_days >= 2 a
\* position entered at step s is flat again no later than step
\* s + max_position_days - 1, so that a run of non-flat steps has at most
\* max_position_days - 1 steps; for max_position_days = 1 a position entered
\* at step s is flat at step s + 1, after exactly one non-flat step.
C28_DaysHeld ==
    /\ CounterIsRunLength
    /\ strategy.max_position_days >= 2 =>
          /\ \A s \in Steps :
                (EnteredAt(s) /\ s + strategy.max_position_days - 1 < t) =>
                    \E u \in s .. s + strategy.max_position_days - 1 : Flat(u)
          /\ \A s \in Steps : RunLen(s) <= strategy.max_position_days - 1
    /\ strategy.max_position_days = 1 =>
          /\ \A s \in Steps : (EnteredAt(s) /\ s + 1 < t) => Flat(s + 1)
          /\ \A s \in Steps : RunLen(s) <= 1

\* a position that was held for max_position_days - 1 = 2 steps and closed
\* by the holding limit alone, the counter back at 0
C28_Witness ==
    /\ pc = "loop"
    /\ strategy.max_position_days = 3
    /\ t - 3 >= Lookback
    /\ EnteredAt(t - 3) /\ Long(t - 2) /\ Flat(t - 1)
    /\ days_in_position = 0
    /\ ~ZGreater(zscore[t - 1], RatNeg(strategy.exit_threshold))
    /\ ~ZLess(zscore[t - 1], RatNeg(strategy.stop_loss_threshold))

\* the position closed at step s: non-flat before, flat at s
ExitAt(s) == s >= 1 /\ ~Flat(s - 1) /\ Flat(s)

\* C29: after any exit at step s, stop-loss exits included, step s is flat
\* and step s + 1 opens a position whenever its z-score is beyond an entry
\* threshold, long below -entry_threshold and short above entry_threshold,
\* and the counter is then 1: no cooling-off follows an exit.
C29_ReentryAfterExit ==
    \A s \in Steps :
        (ExitAt(s) /\ s + 1 \in Steps) =>
            /\ BelowEntry(s + 1) =>
                  Pos(s + 1) = <<1, -hedge_ratio>>
            /\ (~BelowEntry(s + 1) /\ AboveEntry(s + 1)) =>
                  Pos(s + 1) = <<-1, hedge_ratio>>
            /\ (t = s + 2 /\ (BelowEntry(s + 1) \/ AboveEntry(s + 1))) =>
                  days_in_position = 1

\* a long spread closed by the stop loss alone at step t - 2 and opened
\* again at step t - 1, the counter at 1
C29_Witness ==
    /\ pc = "loop"
    /\ t - 3 >= Lookback
    /\ strategy.max_position_days >= 3
    /\ Long(t - 3) /\ ExitAt(t - 2) /\ Long(t - 1)
    /\ ZLess(zscore[t - 2], RatNeg(strategy.stop_loss_threshold))
    /\ BelowEntry(t - 1)
    /\ days_in_position = 1

\* C30: in every backtest each traded pair's daily return is 0 at every
\* step up to and including lookback_period, and the portfolio's first
\* daily return and first cumulative return are exactly 0, so that the
\* series from which the metrics build their drawdown curve starts at 0.
C30_FlatStart ==
    /\ pc = "returns" =>
          \A s \in DOMAIN daily_returns :
              s <= strategy.lookback_period => daily_returns[s] = RInt(0)
    /\ pc \in {"pairs", "finished"} =>
          /\ \A k \in 1 .. Len(returns_df.pair_return) :
                \A s \in DOMAIN returns_df.pair_return[k] :
                    s <= strategy.lookback_period =>
                        returns_df.pair_return[k][s] = RInt(0)
          /\ \A s \in DOMAIN returns_df.portfolio_return :
                s <= strategy.lookback_period =>
                    returns_df.portfolio_return[s] = RInt(0)
    /\ pc = "finished" =>
          /\ returns_df.portfolio_return[0] = RInt(0)
          /\ returns_df.portfolio_cumulative_return[0] = RInt(0)
          /\ returns[0] = RInt(0)
          /\ performance_metrics.total_return =
                returns_df.portfolio_cumulative_return[
                    Len0(returns_df.portfolio_return) - 1]

\* a finished backtest whose first pair has its first nonzero return at
\* step lookback_period + 1, where the portfolio return is nonzero as well
C30_Witness ==
    /\ pc = "finished"
    /\ Len(returns_df.pair_return) >= 1
    /\ returns_df.pair_return[1][strategy.lookback_period + 1] # RInt(0)
    /\ returns_df.portfolio_return[strategy.lookback_period + 1] # RInt(0)
    /\ returns_df.portfolio_cumulative_return[strategy.lookback_period + 1]
          # RInt(0)

====
